---- MODULE Spec2Model ----
(***************************************************************************)
(* The JDWP packet codec of src/src/commands.rs and the MockStream test    *)
(* transport of src/tests/common/mod.rs.                                   *)
(*                                                                         *)
(* Numbers wider than 31 bits (u32, u64, usize) are kept as base-256       *)
(* numerals, most significant digit first, so that no width is lost:       *)
(* a u32 is a sequence of 4 digits, a u64 or a 64-bit usize one of 8.      *)
(* i32, u16 and u8 values are integers.                                    *)
(***************************************************************************)
EXTENDS Integers, Sequences, FiniteSets, TLC

VARIABLES
    op,       \* the codec call in progress
    args,     \* its Args: a JdwpIdSize (VariableLengthId) or a JdwpIdSizes
    data,     \* the bytes of the reader (a Cursor over the payload)
    pos,      \* the reader's stream position
    pc,       \* where the call stands: "write", "read", "count", "loop", "done"
    count,    \* the count prefix read from the payload, as its 4 digits
    items,    \* the Vec being filled by the decoding loop
    result,   \* what the call returned: [status, value]
    inp,      \* what the peer put on the wire (history, never read by the codec)
    read_data,         \* MockStream.read_data
    write_data,        \* MockStream.write_data
    waker,             \* MockStream.waker: TRUE when Some(waker)
    responses,         \* MockStream.responses: the set of <<input, output>> entries
    default_response,  \* MockStream.default_response: <<>> is None, <<v>> is Some(v)
    closed,            \* MockStream.closed
    buf,               \* the bytes put into the ReadBuf by the poll_read just made
    polled,            \* what the latest poll_read returned: "none", "ready", "pending"
    woken              \* whether a stored waker was woken since the latest poll_read

codecVars == <<op, args, data, pos, pc, count, items, result, inp>>
mockVars == <<read_data, write_data, waker, responses, default_response, closed, buf, polled,
              woken>>
vars == <<op, args, data, pos, pc, count, items, result, inp,
          read_data, write_data, waker, responses, default_response, closed, buf, polled,
          woken>>

\* ------------------------------------------------------------------ bounds
\* The longest sequence of records the peer sends in one reply.
MaxRecords == 2
\* The longest prefix a truncated payload keeps (besides "all but one byte").
MaxKeep == 7
\* The longest stream offered to a bare VariableLengthId read.
MaxIdStream == 9
\* The most bytes MockStream.read_data holds.
MaxQueue == 2
\* The most bytes MockStream.write_data holds.
MaxWritten == 2
\* The largest remaining capacity of a ReadBuf given to poll_read.
MaxRead == 2

\* ----------------------------------------------------------------- numerals
Zeros(n) == [i \in 1..n |-> 0]
Reverse(s) == [i \in 1..Len(s) |-> s[Len(s) + 1 - i]]
Take(s, n) == SubSeq(s, 1, n)
Min(a, b) == IF a < b THEN a ELSE b

\* The value of a numeral that fits 31 bits.
RECURSIVE ToInt(_)
ToInt(s) == IF s = <<>> THEN 0 ELSE 256 * ToInt(Take(s, Len(s) - 1)) + s[Len(s)]

\* The n-digit numeral of a natural number.
RECURSIVE Digits(_, _)
Digits(v, n) == IF n = 0 THEN <<>> ELSE Digits(v \div 256, n - 1) \o <<v % 256>>

\* The two's-complement value of a 4-digit numeral.
I32(s) == IF s[1] >= 128
          THEN (ToInt(<<s[1] - 128, s[2], s[3], s[4]>>) - 2147483647) - 1
          ELSE ToInt(s)

\* The 4-digit two's-complement numeral of an i32.
FromI32(v) == IF v >= 0 THEN Digits(v, 4)
              ELSE LET m == (v + 2147483647) + 1
                       d == Digits(m, 4)
                   IN  <<d[1] + 128, d[2], d[3], d[4]>>

\* The bytes of the wire, in the order the endianness gives, as a numeral.
Numeral(bytes, endian) == IF endian = "Big" THEN bytes ELSE Reverse(bytes)

\* `x as u64` of an unsigned value: zero-extended to 8 digits.
AsU64(s) == Zeros(8 - Len(s)) \o s

\* `n as usize` of an i32 (64-bit target): sign-extended to 8 digits.
I32AsUsize(s) == (IF s[1] >= 128 THEN [i \in 1..4 |-> 255] ELSE Zeros(4)) \o s

\* `n as usize` of a u32: zero-extended.
U32AsUsize(s) == Zeros(4) \o s

\* i < n for a loop index i (below 65536) and a u32 n.
U32Above(s, i) == s[1] > 0 \/ s[2] > 0 \/ 256 * s[3] + s[4] > i

\* ------------------------------------------------------------- the reader
\* binrw's fixed-width reads: read_exact of n bytes, the position restored
\* when the stream ends first.
ReadExact(d, p, n) ==
    IF p + n <= Len(d)
    THEN [ok |-> TRUE, val |-> SubSeq(d, p + 1, p + n), pos |-> p + n]
    ELSE [ok |-> FALSE, val |-> <<>>, pos |-> p]

ReadUnsigned(d, p, endian, n) ==
    LET r == ReadExact(d, p, n)
    IN  IF r.ok THEN [r EXCEPT !.val = Numeral(r.val, endian)] ELSE r

ReadI32(d, p, endian) ==
    LET r == ReadUnsigned(d, p, endian, 4)
    IN  IF r.ok THEN [r EXCEPT !.val = I32(r.val)] ELSE r

Failed(p) == [ok |-> FALSE, val |-> <<>>, pos |-> p]

\* The endianness the callers of the codec read with.
WireEndian == "Big"


\* ------------------------------------------------------------------ Command
Commands == {"VirtualMachineVersion", "VirtualMachineClassesBySignature",
             "VirtualMachineAllClasses", "VirtualMachineAllThreads",
             "VirtualMachineTopLevelThreadGroups", "VirtualMachineDispose",
             "VirtualMachineIDSizes", "VirtualMachineSuspend",
             "VirtualMachineResume"}

\* A slip in the table: Resume given the discriminant of Suspend.
CommandValueDup(c) ==
    CASE c = "VirtualMachineVersion"              -> 1 * 256 + 1
      [] c = "VirtualMachineClassesBySignature"   -> 1 * 256 + 2
      [] c = "VirtualMachineAllClasses"           -> 1 * 256 + 3
      [] c = "VirtualMachineAllThreads"           -> 1 * 256 + 4
      [] c = "VirtualMachineTopLevelThreadGroups" -> 1 * 256 + 5
      [] c = "VirtualMachineDispose"              -> 1 * 256 + 6
      [] c = "VirtualMachineIDSizes"              -> 1 * 256 + 7
      [] c = "VirtualMachineSuspend"              -> 1 * 256 + 8
      [] c = "VirtualMachineResume"               -> 1 * 256 + 8

\* The discriminants: (1 << 8) | n.
CommandValue(c) ==
    CASE c = "VirtualMachineVersion"              -> 1 * 256 + 1
      [] c = "VirtualMachineClassesBySignature"   -> 1 * 256 + 2
      [] c = "VirtualMachineAllClasses"           -> 1 * 256 + 3
      [] c = "VirtualMachineAllThreads"           -> 1 * 256 + 4
      [] c = "VirtualMachineTopLevelThreadGroups" -> 1 * 256 + 5
      [] c = "VirtualMachineDispose"              -> 1 * 256 + 6
      [] c = "VirtualMachineIDSizes"              -> 1 * 256 + 7
      [] c = "VirtualMachineSuspend"              -> 1 * 256 + 8
      [] c = "VirtualMachineResume"               -> 1 * 256 + 9

\* binrw_enum!: the discriminant written as a u16.
Command_write(c, endian) == Numeral(Digits(CommandValue(c), 2), endian)

\* binrw_enum!: a u16 read, then the variant with that discriminant, or an error.
Command_read(d, p, endian) ==
    LET r == ReadUnsigned(d, p, endian, 2)
    IN  IF ~r.ok THEN r
        ELSE IF \E c \in Commands : CommandValue(c) = ToInt(r.val)
             THEN [r EXCEPT !.val = CHOOSE c \in Commands : CommandValue(c) = ToInt(r.val)]
             ELSE Failed(p)

\* ------------------------------------------------------------ packet headers
\* A header that forgets the flags byte.
CommandPacketHeader_get_length_short == 4 + 4 + 2

CommandPacketHeader_get_length == 4 + 4 + 1 + 2

ReplyPacketHeader_get_length == 4 + 4 + 1 + 2

\* The header a caller builds for a payload of payload_len bytes.
NewCommandPacketHeader(id, flags, command, payload_len) ==
    [length |-> Digits(CommandPacketHeader_get_length + payload_len, 4),
     id |-> id, flags |-> flags, command |-> command]

\* #[binrw] #[brw(big)]: the fields in declaration order, big-endian.
CommandPacketHeader_write(h) ==
    h.length \o h.id \o <<h.flags>> \o Command_write(h.command, "Big")

CommandPacketHeader_read(d, p) ==
    LET l == ReadUnsigned(d, p, "Big", 4)
        i == ReadUnsigned(d, l.pos, "Big", 4)
        f == ReadUnsigned(d, i.pos, "Big", 1)
        c == Command_read(d, f.pos, "Big")
    IN  IF ~l.ok THEN Failed(l.pos)
        ELSE IF ~i.ok THEN Failed(i.pos)
        ELSE IF ~f.ok THEN Failed(f.pos)
        ELSE IF ~c.ok THEN Failed(c.pos)
        ELSE [ok |-> TRUE, pos |-> c.pos,
              val |-> [length |-> l.val, id |-> i.val, flags |-> f.val[1],
                       command |-> c.val]]

\* --------------------------------------------------------- VariableLengthId
\* A slip in the dispatch: width 2 read as a u8.
VariableLengthId_read_options_u8(d, p, endian, w) ==
    LET r == CASE w = 1 -> ReadUnsigned(d, p, endian, 1)
               [] w = 2 -> ReadUnsigned(d, p, endian, 1)
               [] w = 4 -> ReadUnsigned(d, p, endian, 4)
               [] w = 8 -> ReadUnsigned(d, p, endian, 8)
               [] OTHER -> Failed(p)
    IN  IF r.ok THEN [r EXCEPT !.val = [value |-> AsU64(r.val)]] ELSE r

VariableLengthId_read_options(d, p, endian, w) ==
    LET r == CASE w = 1 -> ReadUnsigned(d, p, endian, 1)
               [] w = 2 -> ReadUnsigned(d, p, endian, 2)
               [] w = 4 -> ReadUnsigned(d, p, endian, 4)
               [] w = 8 -> ReadUnsigned(d, p, endian, 8)
               [] OTHER -> Failed(p)
    IN  IF r.ok THEN [r EXCEPT !.val = [value |-> AsU64(r.val)]] ELSE r

\* ------------------------------------------- TypeTag, ClassStatus, JdwpString
\* The type tags: class, interface, array.
TypeTagValues == {1, 2, 3}

TypeTag_read(d, p, endian) ==
    LET r == ReadUnsigned(d, p, endian, 1)
    IN  IF ~r.ok THEN r
        ELSE IF r.val[1] \in TypeTagValues THEN [r EXCEPT !.val = r.val[1]]
        ELSE Failed(p)

\* The class status: a 32-bit flag set.
ClassStatus_read(d, p, endian) == ReadI32(d, p, endian)

IsCont(b) == b >= 128 /\ b <= 191

\* Well-formed UTF-8.
RECURSIVE IsUtf8(_)
IsUtf8(s) ==
    IF s = <<>> THEN TRUE
    ELSE LET b == s[1]
             n == Len(s)
             Rest(k) == SubSeq(s, k + 1, n)
         IN  IF b <= 127 THEN IsUtf8(Rest(1))
             ELSE IF b >= 194 /\ b <= 223
                  THEN n >= 2 /\ IsCont(s[2]) /\ IsUtf8(Rest(2))
             ELSE IF b >= 224 /\ b <= 239
                  THEN /\ n >= 3
                       /\ IsCont(s[2]) /\ IsCont(s[3])
                       /\ (b = 224 => s[2] >= 160)
                       /\ (b = 237 => s[2] <= 159)
                       /\ IsUtf8(Rest(3))
             ELSE IF b >= 240 /\ b <= 244
                  THEN /\ n >= 4
                       /\ IsCont(s[2]) /\ IsCont(s[3]) /\ IsCont(s[4])
                       /\ (b = 240 => s[2] >= 144)
                       /\ (b = 244 => s[2] <= 143)
                       /\ IsUtf8(Rest(4))
             ELSE FALSE

\* A signed 32-bit byte length, then that many bytes of UTF-8.
JdwpString_read(d, p, endian) ==
    LET l == ReadI32(d, p, endian)
    IN  IF ~l.ok THEN l
        ELSE IF l.val < 0 THEN Failed(p)
        ELSE LET b == ReadExact(d, l.pos, l.val)
             IN  IF ~b.ok THEN b
                 ELSE IF IsUtf8(b.val) THEN b
                 ELSE Failed(l.pos)


\* ------------------------------------------------------------ class records
\* A slip in the context wiring: the object width for a reference type id.
ClassesBySignatureReplyClass_read_options_obj(d, p, endian, a) ==
    LET t == TypeTag_read(d, p, endian)
        i == VariableLengthId_read_options(d, t.pos, endian, a.object_id_size)
        s == ClassStatus_read(d, i.pos, endian)
    IN  IF ~t.ok THEN Failed(t.pos)
        ELSE IF ~i.ok THEN Failed(i.pos)
        ELSE IF ~s.ok THEN Failed(s.pos)
        ELSE [ok |-> TRUE, pos |-> s.pos,
              val |-> [ref_type_tag |-> t.val, type_id |-> i.val, status |-> s.val]]

ClassesBySignatureReplyClass_read_options(d, p, endian, a) ==
    LET t == TypeTag_read(d, p, endian)
        i == VariableLengthId_read_options(d, t.pos, endian, a.reference_type_id_size)
        s == ClassStatus_read(d, i.pos, endian)
    IN  IF ~t.ok THEN Failed(t.pos)
        ELSE IF ~i.ok THEN Failed(i.pos)
        ELSE IF ~s.ok THEN Failed(s.pos)
        ELSE [ok |-> TRUE, pos |-> s.pos,
              val |-> [ref_type_tag |-> t.val, type_id |-> i.val, status |-> s.val]]

AllClassesReplyClass_read_options(d, p, endian, a) ==
    LET t == TypeTag_read(d, p, endian)
        i == VariableLengthId_read_options(d, t.pos, endian, a.reference_type_id_size)
        g == JdwpString_read(d, i.pos, endian)
        s == ClassStatus_read(d, g.pos, endian)
    IN  IF ~t.ok THEN Failed(t.pos)
        ELSE IF ~i.ok THEN Failed(i.pos)
        ELSE IF ~g.ok THEN Failed(g.pos)
        ELSE IF ~s.ok THEN Failed(s.pos)
        ELSE [ok |-> TRUE, pos |-> s.pos,
              val |-> [ref_type_tag |-> t.val, type_id |-> i.val,
                       signature |-> g.val, status |-> s.val]]

\* ----------------------------------------------------------- thread records
\* A slip in the context wiring: the reference type width for a thread id.
AllThreadsReplyThread_read_options_ref(d, p, endian, a) ==
    LET i == VariableLengthId_read_options(d, p, endian, a.reference_type_id_size)
    IN  IF ~i.ok THEN Failed(i.pos)
        ELSE [ok |-> TRUE, pos |-> i.pos, val |-> [thread_id |-> i.val]]

AllThreadsReplyThread_read_options(d, p, endian, a) ==
    LET i == VariableLengthId_read_options(d, p, endian, a.object_id_size)
    IN  IF ~i.ok THEN Failed(i.pos)
        ELSE [ok |-> TRUE, pos |-> i.pos, val |-> [thread_id |-> i.val]]

TopLevelThreadGroupsReplyThreadGroup_read_options(d, p, endian, a) ==
    LET i == VariableLengthId_read_options(d, p, endian, a.object_id_size)
    IN  IF ~i.ok THEN Failed(i.pos)
        ELSE [ok |-> TRUE, pos |-> i.pos, val |-> [thread_group_id |-> i.val]]

\* -------------------------------------------------------------- IdSizesReply
\* #[binrw] #[brw(big)]: five i32 in declaration order.
IdSizesReply_read(d, p) ==
    LET f == ReadI32(d, p, "Big")
        m == ReadI32(d, f.pos, "Big")
        o == ReadI32(d, m.pos, "Big")
        r == ReadI32(d, o.pos, "Big")
        s == ReadI32(d, r.pos, "Big")
    IN  IF ~f.ok THEN Failed(f.pos)
        ELSE IF ~m.ok THEN Failed(m.pos)
        ELSE IF ~o.ok THEN Failed(o.pos)
        ELSE IF ~r.ok THEN Failed(r.pos)
        ELSE IF ~s.ok THEN Failed(s.pos)
        ELSE [ok |-> TRUE, pos |-> s.pos,
              val |-> [field_id_size |-> f.val, method_id_size |-> m.val,
                       object_id_size |-> o.val, reference_type_id_size |-> r.val,
                       frame_id_size |-> s.val]]

\* ------------------------------------------------------- the decoding loops
IsClassOp(o) == o \in {"ClassesBySignature", "AllClasses"}
IsThreadOp(o) == o \in {"AllThreads", "TopLevelThreadGroups"}

\* Vec::with_capacity(cap): more than isize::MAX elements cannot be asked for,
\* whatever the element size: "capacity overflow" panics.  The capacities a
\* cast of an i32 or u32 gives are below 2^32 or at least 2^64 - 2^31.  An
\* allocation within isize::MAX bytes is taken to succeed: the allocator
\* running out of memory is not modelled.
WithCapacity(cap) == IF cap[1] >= 128 THEN "panic" ELSE "ok"

\* `for _ in 0..n` with i iterations done, n an i32.
MoreSigned(n, i) == i < I32(n)

\* `for _ in 0..n` with i iterations done, n a u32.
MoreUnsigned(n, i) == U32Above(n, i)

\* A slip in the error path: the records read so far returned as the reply.
PushPartial(r, its) ==
    IF r.ok THEN [status |-> "loop", items |-> Append(its, r.val)]
    ELSE [status |-> "ok", items |-> its]

\* `v.push(T::read_options(reader, endian, args)?)`.
Push(r, its) ==
    IF r.ok THEN [status |-> "loop", items |-> Append(its, r.val)]
    ELSE [status |-> "err", items |-> <<>>]

NoResult == [status |-> "none", value |-> <<>>]
Returned(st, v) == [status |-> st, value |-> v]

\* The cast of the count of reply o to usize.
CountAsUsize(o, n) == IF IsClassOp(o) THEN I32AsUsize(n) ELSE U32AsUsize(n)

\* The loop condition of reply o.
More(o, n, i) == IF IsClassOp(o) THEN MoreSigned(n, i) ELSE MoreUnsigned(n, i)

\* The record read of reply o.
ReadRecord(o, d, p, endian, a) ==
    CASE o = "ClassesBySignature" -> ClassesBySignatureReplyClass_read_options(d, p, endian, a)
      [] o = "AllClasses" -> AllClassesReplyClass_read_options(d, p, endian, a)
      [] o = "AllThreads" -> AllThreadsReplyThread_read_options(d, p, endian, a)
      [] o = "TopLevelThreadGroups" ->
             TopLevelThreadGroupsReplyThreadGroup_read_options(d, p, endian, a)

\* The count prefix and the allocation of the Vec.
ReplyCount(o) ==
    /\ op = o /\ pc = "count"
    /\ LET r == ReadUnsigned(data, pos, WireEndian, 4)
       IN  /\ pos' = r.pos
           /\ IF ~r.ok
              THEN /\ pc' = "done" /\ result' = Returned("err", <<>>)
                   /\ UNCHANGED count
              ELSE /\ count' = r.val
                   /\ IF WithCapacity(CountAsUsize(o, r.val)) = "panic"
                      THEN pc' = "done" /\ result' = Returned("panic", <<>>)
                      ELSE pc' = "loop" /\ UNCHANGED result
    /\ UNCHANGED <<op, args, data, items, inp>>
    /\ UNCHANGED mockVars

\* One iteration of the loop.
ReplyRecord(o) ==
    /\ op = o /\ pc = "loop"
    /\ More(o, count, Len(items))
    /\ LET r == ReadRecord(o, data, pos, WireEndian, args)
           s == Push(r, items)
       IN  /\ pos' = r.pos
           /\ items' = s.items
           /\ IF s.status = "loop"
              THEN UNCHANGED <<pc, result>>
              ELSE pc' = "done" /\ result' = Returned(s.status, s.items)
    /\ UNCHANGED <<op, args, data, count, inp>>
    /\ UNCHANGED mockVars

\* The loop is over: Ok(reply).
ReplyDone(o) ==
    /\ op = o /\ pc = "loop"
    /\ ~More(o, count, Len(items))
    /\ pc' = "done"
    /\ result' = Returned("ok", items)
    /\ UNCHANGED <<op, args, data, pos, count, items, inp>>
    /\ UNCHANGED mockVars

ClassesBySignatureReply_read_options ==
    \/ ReplyCount("ClassesBySignature")
    \/ ReplyRecord("ClassesBySignature")
    \/ ReplyDone("ClassesBySignature")

AllClassesReply_read_options ==
    \/ ReplyCount("AllClasses")
    \/ ReplyRecord("AllClasses")
    \/ ReplyDone("AllClasses")

AllThreadsReply_read_options ==
    \/ ReplyCount("AllThreads")
    \/ ReplyRecord("AllThreads")
    \/ ReplyDone("AllThreads")

TopLevelThreadGroupsReply_read_options ==
    \/ ReplyCount("TopLevelThreadGroups")
    \/ ReplyRecord("TopLevelThreadGroups")
    \/ ReplyDone("TopLevelThreadGroups")

\* ------------------------------------------------------ the one-step calls
Finish(r) ==
    /\ pc' = "done"
    /\ pos' = r.pos
    /\ result' = IF r.ok THEN Returned("ok", r.val) ELSE Returned("err", <<>>)
    /\ UNCHANGED <<op, args, data, count, items, inp>>
    /\ UNCHANGED mockVars

CommandWrite ==
    /\ op = "Command" /\ pc = "write"
    /\ data' = Command_write(inp.command, WireEndian)
    /\ pc' = "read"
    /\ UNCHANGED <<op, args, pos, count, items, result, inp>>
    /\ UNCHANGED mockVars

CommandRead ==
    /\ op = "Command" /\ pc = "read"
    /\ Finish(Command_read(data, pos, WireEndian))

CommandPacketHeaderWrite ==
    /\ op = "CommandPacketHeader" /\ pc = "write"
    /\ data' = CommandPacketHeader_write(
                  NewCommandPacketHeader(inp.id, inp.flags, inp.command, inp.payload_len))
    /\ pc' = "read"
    /\ UNCHANGED <<op, args, pos, count, items, result, inp>>
    /\ UNCHANGED mockVars

CommandPacketHeaderRead ==
    /\ op = "CommandPacketHeader" /\ pc = "read"
    /\ Finish(CommandPacketHeader_read(data, pos))

VariableLengthIdRead ==
    /\ op = "VariableLengthId" /\ pc = "read"
    /\ Finish(VariableLengthId_read_options(data, pos, WireEndian, args))

IdSizesReplyRead ==
    /\ op = "IdSizes" /\ pc = "read"
    /\ Finish(IdSizesReply_read(data, pos))


\* ------------------------------------------------- what the peer may send
SeqsUpTo(S, n) == UNION {[1..k -> S] : k \in 0..n}

RECURSIVE Concat(_)
Concat(ss) == IF ss = <<>> THEN <<>> ELSE ss[1] \o Concat(Tail(ss))

JdwpIdSizes(o, r) ==
    [field_id_size |-> 8, method_id_size |-> 8, object_id_size |-> o,
     reference_type_id_size |-> r, frame_id_size |-> 8]

\* The contexts tried: equal and unequal widths, and an unsupported width.
ContextChoices ==
    {JdwpIdSizes(8, 8), JdwpIdSizes(8, 4), JdwpIdSizes(1, 2), JdwpIdSizes(2, 1),
     JdwpIdSizes(4, 8), JdwpIdSizes(3, 8), JdwpIdSizes(8, 3)}

\* The identifiers sent: a small one and one with all digits different.
IdChoices == {1, 2}
IdDigits(k, w) == IF k = 1 THEN Zeros(w - 1) \o <<5>> ELSE [i \in 1..w |-> 16 * i + 1]

ThreadChoices == {[id |-> k] : k \in IdChoices}

\* The class records sent: valid ones, one with an undefined type tag, and
\* one whose signature is no UTF-8.
ClassChoices ==
    {[tag |-> 1, id |-> 1, sig |-> <<>>, status |-> 4],
     [tag |-> 2, id |-> 2, sig |-> <<76>>, status |-> 7],
     [tag |-> 3, id |-> 1, sig |-> <<91, 73>>, status |-> 1],
     [tag |-> 0, id |-> 2, sig |-> <<76>>, status |-> 7],
     [tag |-> 1, id |-> 2, sig |-> <<255>>, status |-> 3]}

\* One record on the wire, as section 6 of the protocol description lays it out.
EncodeRecord(o, rec, a) ==
    CASE o = "ClassesBySignature" ->
           <<rec.tag>> \o IdDigits(rec.id, a.reference_type_id_size) \o FromI32(rec.status)
      [] o = "AllClasses" ->
           <<rec.tag>> \o IdDigits(rec.id, a.reference_type_id_size)
              \o FromI32(Len(rec.sig)) \o rec.sig \o FromI32(rec.status)
      [] OTHER -> IdDigits(rec.id, a.object_id_size)

EncodeRecords(o, recs, a) == Concat([k \in 1..Len(recs) |-> EncodeRecord(o, recs[k], a)])

\* The counts declared for n records: right, one more, one fewer, all bits set.
CountChoices(n) == {n, n + 1, -1} \cup (IF n > 0 THEN {n - 1} ELSE {})

\* How much of a payload of n bytes arrives.
KeepChoices(n) == {n} \cup (IF n > 0 THEN {n - 1} ELSE {}) \cup (0..Min(MaxKeep, n))

CommandWireHigh == {0, 1, 2, 255}
CommandWireLow == (0..10) \cup {255}
HeaderIds == {<<0, 0, 0, 1>>, <<1, 2, 3, 4>>, <<255, 255, 255, 255>>}
HeaderFlags == {0, 128}
PayloadLengths == {0, 1, 20, 70000}
IdWidthChoices == {-1, 0, 1, 2, 3, 4, 8, 16}
IdStreamBytes == {1, 255}
IdSizeInputs == {1, 8, 3, -1}

\* ------------------------------------------------------------------- Init
CodecStart(o, a, d, p, i) ==
    /\ op = o /\ args = a /\ data = d /\ pc = p /\ inp = i
    /\ pos = 0 /\ count = Zeros(4) /\ items = <<>> /\ result = NoResult

InitCommand ==
    \/ \E c \in Commands :
          CodecStart("Command", <<>>, <<>>, "write", [command |-> c])
    \/ \E h \in CommandWireHigh, l \in CommandWireLow, k \in 0..2 :
          CodecStart("Command", <<>>, Take(<<h, l>>, k), "read", [command |-> "none"])

InitCommandPacketHeader ==
    \E i \in HeaderIds, f \in HeaderFlags, c \in Commands, n \in PayloadLengths :
        CodecStart("CommandPacketHeader", <<>>, <<>>, "write",
                   [id |-> i, flags |-> f, command |-> c, payload_len |-> n])

InitVariableLengthId ==
    \E w \in IdWidthChoices, d \in SeqsUpTo(IdStreamBytes, MaxIdStream) :
        CodecStart("VariableLengthId", w, d, "read", <<>>)

InitIdSizes ==
    \E v \in [1..5 -> IdSizeInputs] :
        LET full == Concat([k \in 1..5 |-> FromI32(v[k])])
        IN  \E keep \in KeepChoices(Len(full)) :
                CodecStart("IdSizes", <<>>, Take(full, keep), "read",
                           [values |-> v, keep |-> keep])

InitReply(o, Choices) ==
    \E a \in ContextChoices, recs \in SeqsUpTo(Choices, MaxRecords) :
        \E declared \in CountChoices(Len(recs)) :
            LET body == EncodeRecords(o, recs, a)
                full == FromI32(declared) \o body
            IN  \E keep \in KeepChoices(Len(full)) :
                    CodecStart(o, a, Take(full, keep), "count",
                               [recs |-> recs, declared |-> declared,
                                keep |-> keep, body |-> body])

CodecInit ==
    \/ InitCommand
    \/ InitCommandPacketHeader
    \/ InitVariableLengthId
    \/ InitIdSizes
    \/ InitReply("ClassesBySignature", ClassChoices)
    \/ InitReply("AllClasses", ClassChoices)
    \/ InitReply("AllThreads", ThreadChoices)
    \/ InitReply("TopLevelThreadGroups", ThreadChoices)

\* No codec call in progress.
CodecIdle == CodecStart("none", <<>>, <<>>, "done", <<>>)

\* MockStream::new(), with nothing polled yet.
MockNew ==
    /\ read_data = <<>> /\ write_data = <<>> /\ waker = FALSE
    /\ responses = {} /\ default_response = <<>> /\ closed = FALSE
    /\ buf = <<>> /\ polled = "none" /\ woken = FALSE

Next ==
    \/ CommandWrite
    \/ CommandRead
    \/ CommandPacketHeaderWrite
    \/ CommandPacketHeaderRead
    \/ VariableLengthIdRead
    \/ IdSizesReplyRead
    \/ ClassesBySignatureReply_read_options
    \/ AllClassesReply_read_options
    \/ AllThreadsReply_read_options
    \/ TopLevelThreadGroupsReply_read_options

Init == CodecInit /\ MockNew

Spec == Init /\ [][Next]_vars


\* =============================================================== MockStream
\* What the tests register and write: two inputs, one a suffix of the other.
MockInputs == {<<1, 2>>, <<2>>}
MockOutputs == {<<7>>, <<8>>}
MockDefaults == {<<9>>}
MockWrites == {<<1>>, <<2>>}
MockReadChunks == {<<6>>}

\* slice::ends_with
EndsWith(s, t) == Len(t) <= Len(s) /\ SubSeq(s, Len(s) - Len(t) + 1, Len(s)) = t

\* HashMap::insert
Insert(m, k, v) == {e \in m : e[1] # k} \cup {<<k, v>>}

\* A slip in the order of the checks: the default response looked at first.
check_responses_default_first(rd, wd, wk, resp, def) ==
    IF def # <<>> /\ wd # <<>>
    THEN {[read_data |-> rd \o def[1], waker |-> FALSE, woke |-> wk]}
    ELSE LET M == {e \in resp : EndsWith(wd, e[1])}
         IN  IF M # {}
             THEN {[read_data |-> rd \o e[2], waker |-> FALSE, woke |-> wk] : e \in M}
             ELSE {[read_data |-> rd, waker |-> wk, woke |-> FALSE]}

\* The states check_responses may leave: the map is walked in the order the
\* HashMap iterates, which is any order, and the first entry whose input ends
\* the written data wins.
check_responses(rd, wd, wk, resp, def) ==
    LET M == {e \in resp : EndsWith(wd, e[1])}
    IN  IF M # {}
        THEN {[read_data |-> rd \o e[2], waker |-> FALSE, woke |-> wk] : e \in M}
        ELSE IF def # <<>> /\ wd # <<>>
             THEN {[read_data |-> rd \o def[1], waker |-> FALSE, woke |-> wk]}
             ELSE {[read_data |-> rd, waker |-> wk, woke |-> FALSE]}

add_read_data ==
    /\ \E d \in MockReadChunks :
          /\ Len(read_data) + Len(d) <= MaxQueue
          /\ read_data' = read_data \o d
    /\ buf' = <<>>
    /\ UNCHANGED <<write_data, waker, responses, default_response, closed, polled, woken>>
    /\ UNCHANGED codecVars

set_response ==
    /\ \E i \in MockInputs, o \in MockOutputs : responses' = Insert(responses, i, o)
    /\ buf' = <<>>
    /\ UNCHANGED <<read_data, write_data, waker, default_response, closed, polled, woken>>
    /\ UNCHANGED codecVars

set_default_response ==
    /\ \E o \in MockDefaults : default_response' = <<o>>
    /\ buf' = <<>>
    /\ UNCHANGED <<read_data, write_data, waker, responses, closed, polled, woken>>
    /\ UNCHANGED codecVars

clear_written ==
    /\ write_data' = <<>>
    /\ buf' = <<>>
    /\ UNCHANGED <<read_data, waker, responses, default_response, closed, polled, woken>>
    /\ UNCHANGED codecVars

\* A ReadBuf with n >= 1 bytes of room.
poll_read ==
    /\ \E n \in 1..MaxRead :
          IF closed /\ read_data = <<>>
          THEN /\ polled' = "ready" /\ buf' = <<>>
               /\ UNCHANGED <<read_data, waker>>
          ELSE LET to_read == Min(n, Len(read_data))
               IN  IF to_read = 0
                   THEN /\ waker' = TRUE
                        /\ polled' = "pending" /\ buf' = <<>>
                        /\ UNCHANGED read_data
                   ELSE /\ buf' = Take(read_data, to_read)
                        /\ read_data' = SubSeq(read_data, to_read + 1, Len(read_data))
                        /\ polled' = "ready"
                        /\ UNCHANGED waker
    /\ woken' = FALSE
    /\ UNCHANGED <<write_data, responses, default_response, closed>>
    /\ UNCHANGED codecVars

poll_write ==
    /\ \E b \in MockWrites :
          IF closed
          THEN UNCHANGED write_data
          ELSE /\ Len(write_data) + Len(b) <= MaxWritten
               /\ write_data' = write_data \o b
    /\ buf' = <<>>
    /\ UNCHANGED <<read_data, waker, responses, default_response, closed, polled, woken>>
    /\ UNCHANGED codecVars

poll_flush ==
    /\ \E s \in check_responses(read_data, write_data, waker, responses, default_response) :
          /\ Len(s.read_data) <= MaxQueue
          /\ read_data' = s.read_data
          /\ waker' = s.waker
          /\ woken' = (woken \/ s.woke)
    /\ buf' = <<>>
    /\ UNCHANGED <<write_data, responses, default_response, closed, polled>>
    /\ UNCHANGED codecVars

poll_shutdown ==
    /\ closed' = TRUE
    /\ buf' = <<>>
    /\ UNCHANGED <<read_data, write_data, waker, responses, default_response, polled, woken>>
    /\ UNCHANGED codecVars

MockNext ==
    \/ add_read_data
    \/ set_response
    \/ set_default_response
    \/ clear_written
    \/ poll_read
    \/ poll_write
    \/ poll_flush
    \/ poll_shutdown

MockInit == MockNew /\ CodecIdle

MockSpec == MockInit /\ [][MockNext]_vars

\* ============================================================== the claims
IdWidths == {1, 2, 4, 8}
IsReplyOp(o) == IsClassOp(o) \/ IsThreadOp(o)

\* The two-byte values 0x0101 .. 0x0109.
DefinedOpcodes == {257, 258, 259, 260, 261, 262, 263, 264, 265}

\* C1: every Command variant, written as its two big-endian bytes and read
\* back, is the same variant; two bytes that are none of the nine defined
\* discriminants are decoded to an error, never to a variant.
CommandRoundTrip ==
    (op = "Command" /\ pc = "done") =>
        /\ inp.command # "none" =>
              /\ Len(data) = 2 /\ ToInt(data) \in DefinedOpcodes
              /\ result = Returned("ok", inp.command)
        /\ (inp.command = "none" /\ Len(data) = 2 /\ ToInt(data) \notin DefinedOpcodes) =>
              result = Returned("err", <<>>)
        /\ \A c \in Commands : \A e \in Commands :
              (result = Returned("ok", c) /\ CommandValue(e) = ToInt(data)) => e = c

CommandRoundTripWitness ==
    /\ op = "Command" /\ pc = "done"
    /\ inp.command = "VirtualMachineResume"
    /\ data = <<1, 9>>
    /\ result = Returned("ok", "VirtualMachineResume")

\* C2: a VariableLengthId read with width w in {1,2,4,8} consumes exactly w
\* bytes and returns their big-endian unsigned value zero-extended to 64 bits
\* (and fails, consuming nothing, when fewer than w bytes are left); with any
\* other width it fails and consumes nothing.
VariableLengthIdDecode ==
    (op = "VariableLengthId" /\ pc = "done") =>
        /\ (args \in IdWidths /\ Len(data) >= args) =>
              /\ result = Returned("ok", [value |-> Zeros(8 - args) \o Take(data, args)])
              /\ pos = args
        /\ (args \in IdWidths /\ Len(data) < args) =>
              result = Returned("err", <<>>) /\ pos = 0
        /\ args \notin IdWidths =>
              result = Returned("err", <<>>) /\ pos = 0

VariableLengthIdDecodeWitness ==
    /\ op = "VariableLengthId" /\ pc = "done"
    /\ args = 2 /\ Len(data) = 3 /\ data[1] = 1 /\ data[2] = 255
    /\ result.status = "ok" /\ pos = 2

\* C3: a negative count prefix of an AllClassesReply or ClassesBySignatureReply
\* is rejected with a decode error (no panic, no reply).
NegativeCountRejected ==
    (IsClassOp(op) /\ pc = "done" /\ Len(data) >= 4 /\ I32(Take(data, 4)) < 0) =>
        result = Returned("err", <<>>)

\* C4: an IdSizesReply decodes only when all five values are in {1,2,4,8},
\* and fails whenever one of them is not.
IdSizesValidated ==
    (op = "IdSizes" /\ pc = "done") =>
        /\ result.status = "ok" =>
              /\ result.value.field_id_size \in IdWidths
              /\ result.value.method_id_size \in IdWidths
              /\ result.value.object_id_size \in IdWidths
              /\ result.value.reference_type_id_size \in IdWidths
              /\ result.value.frame_id_size \in IdWidths
        /\ (\E k \in 1..5 : inp.values[k] \notin IdWidths) => result.status = "err"

ThreadIdOf(o, it) == IF o = "AllThreads" THEN it.thread_id ELSE it.thread_group_id

\* C5: with object_id_size w in {1,2,4,8} and a payload of a count n and at
\* least n*w more bytes, an AllThreadsReply or TopLevelThreadGroupsReply decodes
\* to exactly n identifiers, the k-th being the k-th group of w bytes after
\* the count, and the reader has consumed exactly 4 + n*w bytes.
ThreadRepliesDecodeDeclaredIds ==
    (/\ IsThreadOp(op) /\ pc = "done"
     /\ args.object_id_size \in IdWidths
     /\ Len(data) >= 4 /\ data[1] = 0 /\ data[2] = 0
     /\ Len(data) - 4 >= (256 * data[3] + data[4]) * args.object_id_size) =>
        LET n == 256 * data[3] + data[4]
            w == args.object_id_size
        IN  /\ result.status = "ok"
            /\ Len(result.value) = n
            /\ \A k \in 1..n :
                  ThreadIdOf(op, result.value[k]).value =
                      Zeros(8 - w) \o SubSeq(data, 4 + (k - 1) * w + 1, 4 + k * w)
            /\ pos = 4 + n * w

ThreadRepliesWitness ==
    /\ op = "TopLevelThreadGroups" /\ pc = "done"
    /\ args = JdwpIdSizes(2, 1)
    /\ inp.declared = 1 /\ Len(data) = 8
    /\ result.status = "ok" /\ Len(result.value) = 1 /\ pos = 6

\* The payload that arrived holds the declared number of complete, valid records.
WellFormed(o, a, i) ==
    /\ i.declared >= 0 /\ i.declared <= Len(i.recs)
    /\ i.keep >= 4 + Len(EncodeRecords(o, Take(i.recs, i.declared), a))
    /\ \A k \in 1..i.declared :
          /\ (IF IsClassOp(o) THEN a.reference_type_id_size ELSE a.object_id_size) \in IdWidths
          /\ IsClassOp(o) => i.recs[k].tag \in {1, 2, 3}
          /\ o = "AllClasses" => IsUtf8(i.recs[k].sig)

\* The count prefix arrived whole and is negative as an i32.
NegativeSigned(o, i) == IsClassOp(o) /\ i.keep >= 4 /\ i.declared < 0

\* C6: the four multi-record decodes are all-or-nothing: a reply is returned
\* only with every declared record in it, and when the stream ends early or a
\* field of a record does not decode, the call returns an error and no reply.
RepliesAllOrNothing ==
    (IsReplyOp(op) /\ pc = "done") =>
        /\ result.status = "ok" =>
              WellFormed(op, args, inp) /\ Len(result.value) = inp.declared
        /\ (~WellFormed(op, args, inp) /\ ~NegativeSigned(op, inp)) =>
              result = Returned("err", <<>>)

RepliesAllOrNothingWitness ==
    /\ op = "ClassesBySignature" /\ pc = "done"
    /\ args = JdwpIdSizes(8, 4)
    /\ inp.declared = 2 /\ Len(inp.recs) = 2 /\ inp.keep = 4 + 9 + 8
    /\ inp.recs[1].tag = 1 /\ inp.recs[2].tag = 1
    /\ pos = 4 + 9 + 5
    /\ result = Returned("err", <<>>)

ExpectedClass(o, rec, a) ==
    IF o = "ClassesBySignature"
    THEN [ref_type_tag |-> rec.tag,
          type_id |-> [value |-> AsU64(IdDigits(rec.id, a.reference_type_id_size))],
          status |-> rec.status]
    ELSE [ref_type_tag |-> rec.tag,
          type_id |-> [value |-> AsU64(IdDigits(rec.id, a.reference_type_id_size))],
          signature |-> rec.sig,
          status |-> rec.status]

\* C7: a ClassesBySignatureReply record is read as type tag, identifier of
\* width reference_type_id_size, status; an AllClassesReply record as type tag,
\* identifier of width reference_type_id_size, length-prefixed signature,
\* status: a payload laid out that way decodes to the records sent, field by
\* field, and the reader stops right after the last declared record.
ClassRecordLayout ==
    (IsClassOp(op) /\ pc = "done") =>
        /\ WellFormed(op, args, inp) => result.status = "ok"
        /\ result.status = "ok" =>
              /\ result.value = [k \in 1..inp.declared |-> ExpectedClass(op, inp.recs[k], args)]
              /\ pos = 4 + Len(EncodeRecords(op, Take(inp.recs, inp.declared), args))

ClassRecordLayoutWitness ==
    /\ op = "AllClasses" /\ pc = "done"
    /\ args = JdwpIdSizes(8, 4)
    /\ inp.declared = 2
    /\ result.status = "ok" /\ Len(result.value) = 2
    /\ result.value[1].signature = <<91, 73>>
    /\ result.value[2].type_id.value = <<0, 0, 0, 0, 17, 33, 49, 65>>

\* C8: a CommandPacketHeader for an id, flags, command and payload length is
\* written as 11 bytes, length:u32 id:u32 flags:u8 command:u16 big-endian, the
\* length being 11 + the payload length; reading the 11 bytes gives back the
\* id, flags and command; both get_length() are 11.
CommandPacketHeaderRoundTrip ==
    /\ CommandPacketHeader_get_length = 11
    /\ ReplyPacketHeader_get_length = 11
    /\ (op = "CommandPacketHeader" /\ pc = "done") =>
          /\ Len(data) = 11
          /\ SubSeq(data, 1, 4) = Digits(11 + inp.payload_len, 4)
          /\ SubSeq(data, 5, 8) = inp.id
          /\ data[9] = inp.flags
          /\ 256 * data[10] + data[11] \in DefinedOpcodes
          /\ pos = 11
          /\ result.status = "ok"
          /\ result.value.id = inp.id
          /\ result.value.flags = inp.flags
          /\ result.value.command = inp.command
          /\ result.value.length = Digits(11 + inp.payload_len, 4)

CommandPacketHeaderWitness ==
    /\ op = "CommandPacketHeader" /\ pc = "done"
    /\ inp.payload_len = 70000 /\ inp.flags = 128 /\ inp.id = <<1, 2, 3, 4>>
    /\ inp.command = "VirtualMachineIDSizes"
    /\ data = <<0, 1, 17, 123, 1, 2, 3, 4, 128, 1, 7>>
    /\ result.status = "ok"


\* The registered entries whose input ends the written data.
Matching == {e \in responses : EndsWith(write_data, e[1])}

\* The default response is what a flush appends exactly when no registered
\* input matches, a default is set and something was written.
DefaultOnFlush ==
    Matching = {} =>
        read_data' = IF default_response # <<>> /\ write_data # <<>>
                     THEN read_data \o default_response[1]
                     ELSE read_data

\* A poll_read that is Ready hands over the front of the queue, in order.
ReadsAreFifo ==
    poll_read => (read_data = buf' \o read_data' /\ Len(buf') <= MaxRead)

NoLostWakeup ==
    (polled = "pending" /\ ~woken) => (read_data = <<>> /\ ~closed)

====
